---- MODULE Spec2Model ----
(***************************************************************************)
(* ghostnote vault: key management, lock state machine and re-keying.      *)
(*                                                                         *)
(* The Rust code of src-tauri/src/commands/vault.rs is given in the        *)
(* implementation plan (src/unnamed/part_000).  Every VaultState method    *)
(* takes the one std::sync::Mutex for its whole body, so a method is one   *)
(* atomic step guarded by "mutex free"; with_kek holds the mutex while its *)
(* closure runs, so it is two steps.  A tauri command is a sequence of     *)
(* steps, one per access to the file system or to VaultState; the pure     *)
(* computation before an access (derive, encrypt, generate) is part of     *)
(* the step of that access.  Commands of different processes interleave.   *)
(***************************************************************************)
EXTENDS Integers, Sequences, FiniteSets, TLC

\* ---------------------------------------------------------------- bounds
NumProcs == 2          \* concurrent command invocations (tauri worker threads)
NumPasswords == 2      \* distinct password strings a user may type
MaxSalts == 2          \* fresh salts (and recovery keys) OsRng hands out
NumDocs == 1           \* notes with a .key file
TimeStep == 150        \* seconds the clock advances in one step
MaxNow == 300          \* the clock stops advancing here
StartMs == 1500        \* Date.now() when the web view starts
MsStep == 500          \* milliseconds Date.now() advances in one step
MaxMs == 4000          \* Date.now() stops advancing here
MaxEvents == 4         \* keydown and click events handled

\* ------------------------------------------------------- program constants
DEFAULT_LOCK_TIMEOUT == 300
THROTTLE_MS == 1000    \* trackActivity: now - lastActivityTime > 1000
NONCE_SIZE == 12       \* const NONCE_SIZE: usize = 12
TAG_SIZE == 16         \* the AES-256-GCM tag that follows the sealed bytes
KEY_SIZE == 32         \* Kek([u8; 32]), Dek([u8; 32])
SALT_SIZE == 32        \* generate_salt() -> [u8; 32]

Procs == 1..NumProcs
Passwords == 1..NumPasswords
SaltIds == 1..MaxSalts
Docs == 1..NumDocs

VARIABLES
    files,          \* .vault/salt, .vault/verify, .vault/recovery.key
    docs,           \* per-note .key file: the wrapped DEK
    kek,            \* VaultStateInner.kek : Option<Kek>
    last_activity,  \* VaultStateInner.last_activity
    lock_timeout,   \* VaultStateInner.lock_timeout
    mutex,          \* VaultState.inner's Mutex: 0 free, else the holder
    now,            \* Instant::now()
    pc,             \* position of each command invocation
    loc,            \* its arguments, locals and result
    sched,          \* position of the auto-lock timer task
    nextSalt,       \* next value OsRng gives generate_salt
    nextRec,        \* next value OsRng gives RecoveryKey::generate
    events,         \* 'vault-locked' events emitted and not yet delivered
    vaultReady,     \* App.svelte: vaultReady
    vault_status,   \* vault.svelte.ts: status
    loading,        \* LockScreen.svelte: loading
    flow,           \* the await each front-end call is at, per invocation
    lastActivityTime,   \* App.svelte: lastActivityTime
    date_now,       \* Date.now(), in milliseconds
    activity_log,   \* the keydown and click events handled so far: Date.now() and
                    \* whether invoke('vault_activity') was called
    recording_status,   \* recording.svelte.ts: status
    duration,       \* recording.svelte.ts: duration
    intervalId,     \* recording.svelte.ts: intervalId
    intervals,      \* setInterval timers that have not been cleared
    timeouts,       \* setTimeout continuations of stopRecording not yet run
    toggles         \* record-toggle events (button clicks, shortcut) handled

\* the state of the Rust process and of the vault directory
backend == <<files, docs, kek, last_activity, lock_timeout, mutex, now, pc, loc,
             sched, nextSalt, nextRec>>

\* the state of the web view, but for the event queue
frontend == <<vaultReady, vault_status, loading, flow, lastActivityTime, date_now,
              activity_log, recording_status, duration, intervalId, intervals,
              timeouts, toggles>>

vars == <<backend, events, frontend>>

\* ------------------------------------------------------------------ values
None == [t |-> "none"]
IsNone(x) == x.t = "none"

\* A password string typed by the user.
Pw(i) == [t |-> "str", kind |-> "pw", id |-> i, dashes |-> FALSE, spaces |-> FALSE,
          other_ws |-> FALSE]
\* A recovery key string: 24 base64 characters, with or without the dashes
\* and spaces a user may put between the groups.
Rk(i, d, s) == [t |-> "str", kind |-> "rk", id |-> i, dashes |-> d, spaces |-> s,
               other_ws |-> FALSE]
\* The same with a tab or a line break in it when w: white space that is not
\* the character ' '.
RkTyped(i, d, s, w) == [Rk(i, d, s) EXCEPT !.other_ws = w]

\* str.replace("-", "")
StripDashes(s) == [s EXCEPT !.dashes = FALSE]
\* str.replace(" ", "")
StripSpaces(s) == [s EXCEPT !.spaces = FALSE]
\* the string without any dash or white-space character
Canonical(s) == [s EXCEPT !.dashes = FALSE, !.spaces = FALSE, !.other_ws = FALSE]

Salt(i) == [t |-> "salt", id |-> i]
Dek(d) == [t |-> "dek", id |-> d]
VERIFY_PLAINTEXT == [t |-> "marker", text |-> "ghostnote-verify"]
\* The content of a file this program did not write: n bytes that are neither
\* a salt it generated nor a value it sealed.
Bytes(n) == [t |-> "bytes", len |-> n]

\* slice.len() of a value as it lies in a file or in a buffer
RECURSIVE ByteLen(_)
ByteLen(x) ==
    CASE x.t = "bytes" -> x.len
      [] x.t = "salt" -> SALT_SIZE
      [] x.t \in {"kek", "dek"} -> KEY_SIZE
      [] x.t = "marker" -> Len(x.text)
      [] x.t = "ct" -> NONCE_SIZE + ByteLen(x.pt) + TAG_SIZE

Ok(v) == [ok |-> TRUE, v |-> v, err |-> ""]
Err(e) == [ok |-> FALSE, v |-> None, err |-> e]

\* Kek::derive: Argon2id of (password bytes, salt); the fixed parameters are
\* valid, so Params::new never fails.
Kek_derive(password, salt) == [t |-> "kek", pw |-> password, salt |-> salt]

\* encrypt: nonce || AES-256-GCM(key, nonce, plaintext).  The sealed value
\* stands for the whole byte string; no command reads the nonce on its own.
encrypt(key, plaintext) == [t |-> "ct", k |-> key, pt |-> plaintext]

\* decrypt that does not check the tag against the key
decrypt_any_key(key, ciphertext) ==
    IF ByteLen(ciphertext) < NONCE_SIZE THEN Err("Ciphertext too short")
    ELSE IF ciphertext.t = "ct" THEN Ok(ciphertext.pt)
    ELSE Err("Decryption failed")

\* decrypt without the length check: the cipher rejects the short input
decrypt_no_length_check(key, ciphertext) ==
    IF ciphertext.t = "ct" /\ ciphertext.k = key THEN Ok(ciphertext.pt)
    ELSE Err("Decryption failed")

\* decrypt: the input is split at NONCE_SIZE; the tag verifies only for bytes
\* that were sealed, and only under the key they were sealed with
decrypt(key, ciphertext) ==
    IF ByteLen(ciphertext) < NONCE_SIZE THEN Err("Ciphertext too short")
    ELSE IF ciphertext.t = "ct" /\ ciphertext.k = key THEN Ok(ciphertext.pt)
    ELSE Err("Decryption failed")

wrap_dek(k, dek) == encrypt(k, dek)

\* unwrap_dek that hands back the bytes after the nonce when decrypt failed
unwrap_dek_unauthenticated(k, wrapped) ==
    LET r == decrypt(k, wrapped) IN
    IF ~r.ok
    THEN IF wrapped.t = "ct" THEN Ok(wrapped.pt) ELSE r
    ELSE IF ByteLen(r.v) # KEY_SIZE THEN Err("Invalid DEK size")
    ELSE Ok(r.v)

unwrap_dek(k, wrapped) ==
    LET r == decrypt(k, wrapped) IN
    IF ~r.ok THEN r
    ELSE IF ByteLen(r.v) # KEY_SIZE THEN Err("Invalid DEK size")
    ELSE Ok(r.v)

\* RecoveryKey::from_input
RecoveryKey_from_input(input) == StripSpaces(StripDashes(input))

\* RecoveryData::create deriving from the key as displayed, dashes included
RecoveryData_create_with_dashes(k, recovery_key, salt) ==
    LET recovery_kek == Kek_derive(recovery_key, salt) IN
    [t |-> "json", kek_bytes |-> encrypt(recovery_kek, k)]

\* RecoveryData::create storing the KEK bytes without encrypting them
RecoveryData_create_plain(k, recovery_key, salt) ==
    [t |-> "json", kek_bytes |-> k]

\* RecoveryData::create, then serde_json::to_vec
RecoveryData_create(k, recovery_key, salt) ==
    LET recovery_kek == Kek_derive(StripDashes(recovery_key), salt) IN
    [t |-> "json", kek_bytes |-> encrypt(recovery_kek, k)]

\* RecoveryData::recover_kek
RecoveryData_recover_kek(data, recovery_key, salt) ==
    LET recovery_kek == Kek_derive(StripDashes(recovery_key), salt)
        r == decrypt(recovery_kek, data.kek_bytes)
    IN  IF ~r.ok THEN r
        ELSE IF ByteLen(r.v) # KEY_SIZE THEN Err("Invalid KEK size")
        ELSE Ok(r.v)

\* is_vault_initialized: config.salt_path.exists()
is_vault_initialized == ~IsNone(files.salt)

\* ------------------------------------------------------------- VaultState
\* Every method starts with self.inner.lock().unwrap().
MutexFree == mutex = 0

\* VaultState::is_unlocked
VaultState_is_unlocked == ~IsNone(kek)

\* Instant::elapsed of last_activity
Elapsed == now - last_activity

\* VaultState::time_until_lock.  The clock of the model counts whole seconds;
\* Instant has nanoseconds, and frac says that a fraction of a second has
\* passed on top of Elapsed.  Duration::as_secs drops the fraction of the
\* difference: 300 s - 0.2 s is 299.
VaultState_time_until_lock(frac) ==
    IF Elapsed >= lock_timeout THEN 0
    ELSE IF frac THEN lock_timeout - Elapsed - 1
    ELSE lock_timeout - Elapsed

\* should_lock without the test that a KEK is present
VaultState_should_lock_ignores_key == Elapsed >= lock_timeout

\* should_lock with is_none in place of is_some
VaultState_should_lock_inverted == IsNone(kek) /\ Elapsed >= lock_timeout

\* should_lock with || in place of &&
VaultState_should_lock_or == ~IsNone(kek) \/ Elapsed >= lock_timeout

\* VaultState::should_lock
VaultState_should_lock == ~IsNone(kek) /\ Elapsed >= lock_timeout

\* unlock that records the activity but does not store the KEK
VaultState_unlock_no_key(k) ==
    /\ MutexFree
    /\ UNCHANGED kek
    /\ last_activity' = now

\* unlock that stores the KEK and leaves last_activity as it was
VaultState_unlock_keeps_activity(k) ==
    /\ MutexFree
    /\ kek' = k
    /\ UNCHANGED last_activity

\* VaultState::unlock
VaultState_unlock(k) ==
    /\ MutexFree
    /\ kek' = k
    /\ last_activity' = now

\* lock that leaves the KEK in place
VaultState_lock_keeps_key ==
    /\ MutexFree
    /\ UNCHANGED <<kek, last_activity>>

\* lock that clears the KEK without taking the mutex
VaultState_lock_no_mutex ==
    /\ kek' = None
    /\ UNCHANGED last_activity

\* VaultState::lock
VaultState_lock ==
    /\ MutexFree
    /\ kek' = None
    /\ UNCHANGED last_activity

\* touch that also does the auto-lock: clears the KEK when the timeout has run out
VaultState_touch_locks_expired ==
    /\ MutexFree
    /\ kek' = IF Elapsed >= lock_timeout THEN None ELSE kek
    /\ last_activity' = now

\* touch that records the activity only while a KEK is present
VaultState_touch_if_unlocked ==
    /\ MutexFree
    /\ last_activity' = IF IsNone(kek) THEN last_activity ELSE now
    /\ UNCHANGED kek

\* VaultState::touch
VaultState_touch ==
    /\ MutexFree
    /\ last_activity' = now
    /\ UNCHANGED kek

\* ------------------------------------------------------ command invocations
Idle == [cmd |-> "none", pw |-> None, npw |-> None, rin |-> None, doc |-> 0,
         salt |-> None, kek |-> None, rkey |-> None, ran |-> FALSE,
         res |-> "", out |-> None]

\* the command returns: its arguments and locals are dropped, its result is
\* on the way to the front end
Return(p, result, output) ==
    /\ pc' = [pc EXCEPT ![p] = "done"]
    /\ loc' = [loc EXCEPT ![p] = [Idle EXCEPT !.cmd = loc[p].cmd, !.res = result,
                                             !.out = output]]

Goto(p, label) == pc' = [pc EXCEPT ![p] = label]

\* a step of invocation p at label l
At(p, label) == pc[p] = label

SetLoc(p, f, v) == loc' = [loc EXCEPT ![p][f] = v]

\* user inputs
PasswordInputs == {Pw(i) : i \in Passwords}
\* The ways a user types a recovery key back: as displayed, without the
\* dashes, with spaces put in, with a tab or a line break put in.
RecoveryForms == {<<TRUE, FALSE, FALSE>>, <<FALSE, FALSE, FALSE>>,
                  <<TRUE, TRUE, FALSE>>, <<TRUE, FALSE, TRUE>>}
RecoveryInputs == {RkTyped(i, f[1], f[2], f[3]) : i \in SaltIds, f \in RecoveryForms}

\* A re-keying command that has not yet called generate_salt.
NeedsSalt(q) ==
    \/ loc[q].cmd = "setup_vault" /\ pc[q] \in {"s_salt"}
    \/ loc[q].cmd = "recover_vault" /\ pc[q] \in {"r_salt", "r_recover", "r_wsalt"}
    \/ loc[q].cmd = "change_password" /\ pc[q] \in {"u_salt", "u_verify", "u_install", "c_salt"}

\* OsRng still has a fresh salt for one more re-keying command.
SaltLeft == nextSalt + Cardinality({q \in Procs : NeedsSalt(q)}) <= MaxSalts

\* state.config(): takes the mutex, clones the config set at start-up
Invoke(p, cmd, pw, npw, rin, doc, label) ==
    /\ At(p, "idle")
    /\ MutexFree
    /\ pc' = [pc EXCEPT ![p] = label]
    /\ loc' = [loc EXCEPT ![p] = [Idle EXCEPT !.cmd = cmd, !.pw = pw, !.npw = npw,
                                             !.rin = rin, !.doc = doc]]

\* ReadSalt that takes a salt file of any length, cutting or zero-filling it
\* to the 32 bytes of the buffer
ReadSalt_resizes(p, next) ==
    /\ UNCHANGED <<files, docs, kek, last_activity, lock_timeout, events, frontend, mutex, now,
                   sched, nextSalt, nextRec>>
    /\ IF IsNone(files.salt) THEN Return(p, "Failed to read salt", None)
       ELSE /\ Goto(p, next)
            /\ SetLoc(p, "salt", files.salt)

\* fs::read(&config.salt_path), the length check, copy_from_slice
ReadSalt(p, next) ==
    /\ UNCHANGED <<files, docs, kek, last_activity, lock_timeout, events, frontend, mutex, now,
                   sched, nextSalt, nextRec>>
    /\ IF IsNone(files.salt) THEN Return(p, "Failed to read salt", None)
       ELSE IF ByteLen(files.salt) # SALT_SIZE THEN Return(p, "Invalid salt file", None)
       ELSE /\ Goto(p, next)
            /\ SetLoc(p, "salt", files.salt)

\* generate_salt, fs::write(&config.salt_path, ..): the write may fail
WriteSalt(p, next) ==
    /\ nextSalt <= MaxSalts
    /\ nextSalt' = nextSalt + 1
    /\ UNCHANGED <<docs, kek, last_activity, lock_timeout, events, frontend, mutex, now, sched, nextRec>>
    /\ \/ /\ files' = [files EXCEPT !.salt = Salt(nextSalt)]
          /\ Goto(p, next)
          /\ SetLoc(p, "salt", Salt(nextSalt))
       \/ /\ UNCHANGED files
          /\ Return(p, "Failed to write salt", None)

\* Kek::derive(password, salt), encrypt(kek, b"ghostnote-verify"),
\* fs::write(&config.verify_path, ..): the write may fail
WriteVerify(p, password, next) ==
    LET new_kek == Kek_derive(password, loc[p].salt) IN
    /\ UNCHANGED <<docs, kek, last_activity, lock_timeout, events, frontend, mutex, now, sched,
                   nextSalt, nextRec>>
    /\ \/ /\ files' = [files EXCEPT !.verify = encrypt(new_kek, VERIFY_PLAINTEXT)]
          /\ Goto(p, next)
          /\ SetLoc(p, "kek", new_kek)
       \/ /\ UNCHANGED files
          /\ Return(p, "Failed to write verify blob", None)

\* WriteRecovery that returns a new recovery key and leaves the recovery file
\* as it was
WriteRecovery_keeps_file(p, next) ==
    LET recovery_key == Rk(nextRec, TRUE, FALSE) IN
    /\ nextRec' = nextRec + 1
    /\ UNCHANGED <<files, docs, kek, last_activity, lock_timeout, events, frontend, mutex, now, sched,
                   nextSalt>>
    /\ Goto(p, next)
    /\ SetLoc(p, "rkey", recovery_key)

\* RecoveryKey::generate (dash-separated groups), RecoveryData::create,
\* serde_json::to_vec, fs::write(&config.recovery_path, ..): the write may fail
WriteRecovery(p, next) ==
    LET recovery_key == Rk(nextRec, TRUE, FALSE) IN
    /\ nextRec' = nextRec + 1
    /\ UNCHANGED <<docs, kek, last_activity, lock_timeout, events, frontend, mutex, now, sched, nextSalt>>
    /\ \/ /\ files' = [files EXCEPT !.recovery =
                        RecoveryData_create(loc[p].kek, recovery_key, loc[p].salt)]
          /\ Goto(p, next)
          /\ SetLoc(p, "rkey", recovery_key)
       \/ /\ UNCHANGED files
          /\ Return(p, "Failed to write recovery key", None)

\* state.unlock(kek); Ok(SetupResult { recovery_key })
InstallNew(p) ==
    /\ VaultState_unlock(loc[p].kek)
    /\ Return(p, "ok", loc[p].rkey)
    /\ UNCHANGED <<files, docs, lock_timeout, events, frontend, mutex, now, sched, nextSalt, nextRec>>

\* ------------------------------------------------------------ setup_vault
setup_vault_config(p) ==
    /\ SaltLeft
    /\ \E pw \in PasswordInputs : Invoke(p, "setup_vault", pw, None, None, 0, "s_salt")
    /\ UNCHANGED <<files, docs, kek, last_activity, lock_timeout, events, frontend, mutex, now,
                   sched, nextSalt, nextRec>>

setup_vault_write_salt(p) == At(p, "s_salt") /\ WriteSalt(p, "s_verify")

setup_vault_write_verify(p) == At(p, "s_verify") /\ WriteVerify(p, loc[p].pw, "s_recovery")

setup_vault_write_recovery(p) == At(p, "s_recovery") /\ WriteRecovery(p, "s_install")

setup_vault_unlock(p) == At(p, "s_install") /\ InstallNew(p)

\* ----------------------------------------------------------- unlock_vault
unlock_vault_config(p) ==
    /\ \E pw \in PasswordInputs : Invoke(p, "unlock_vault", pw, None, None, 0, "u_salt")
    /\ UNCHANGED <<files, docs, kek, last_activity, lock_timeout, events, frontend, mutex, now,
                   sched, nextSalt, nextRec>>

\* unlock_vault keeping the MutexGuard it took for the config until it installs
unlock_vault_read_salt_holding_lock(p) ==
    /\ At(p, "u_salt")
    /\ MutexFree
    /\ UNCHANGED <<files, docs, kek, last_activity, lock_timeout, events, frontend, now, sched,
                   nextSalt, nextRec>>
    /\ IF IsNone(files.salt) THEN Return(p, "Failed to read salt", None) /\ UNCHANGED mutex
       ELSE IF ByteLen(files.salt) # SALT_SIZE
       THEN Return(p, "Invalid salt file", None) /\ UNCHANGED mutex
       ELSE /\ Goto(p, "u_verify")
            /\ SetLoc(p, "salt", files.salt)
            /\ mutex' = p

unlock_vault_read_salt(p) == At(p, "u_salt") /\ ReadSalt(p, "u_verify")

\* unlock_vault that installs the candidate key before it has checked it
unlock_vault_verify_installs_first(p) ==
    LET candidate == Kek_derive(loc[p].pw, loc[p].salt)
        verify_decrypted == decrypt(candidate, files.verify)
    IN
    /\ At(p, "u_verify")
    /\ VaultState_unlock(candidate)
    /\ UNCHANGED <<files, docs, lock_timeout, events, frontend, mutex, now, sched, nextSalt, nextRec>>
    /\ IF IsNone(files.verify) THEN Return(p, "Failed to read verify blob", None)
       ELSE IF ~verify_decrypted.ok THEN Return(p, "Wrong password", None)
       ELSE IF verify_decrypted.v # VERIFY_PLAINTEXT THEN Return(p, "Wrong password", None)
       ELSE /\ Goto(p, "u_install")
            /\ SetLoc(p, "kek", candidate)

\* Kek::derive, fs::read(&config.verify_path), decrypt, compare with the marker
unlock_vault_verify(p) ==
    LET candidate == Kek_derive(loc[p].pw, loc[p].salt)
        verify_decrypted == decrypt(candidate, files.verify)
    IN
    /\ At(p, "u_verify")
    /\ UNCHANGED <<files, docs, kek, last_activity, lock_timeout, events, frontend, mutex, now,
                   sched, nextSalt, nextRec>>
    /\ IF IsNone(files.verify) THEN Return(p, "Failed to read verify blob", None)
       ELSE IF ~verify_decrypted.ok THEN Return(p, "Wrong password", None)
       ELSE IF verify_decrypted.v # VERIFY_PLAINTEXT THEN Return(p, "Wrong password", None)
       ELSE /\ Goto(p, "u_install")
            /\ SetLoc(p, "kek", candidate)

\* state.unlock(kek); Ok(()): to the caller, which is the front end or change_password
unlock_vault_unlock(p) ==
    /\ At(p, "u_install")
    /\ VaultState_unlock(loc[p].kek)
    /\ UNCHANGED <<files, docs, lock_timeout, events, frontend, mutex, now, sched, nextSalt, nextRec>>
    /\ IF loc[p].cmd = "change_password"
       THEN /\ Goto(p, "c_salt")
            /\ loc' = [loc EXCEPT ![p] = [@ EXCEPT !.salt = None, !.kek = None]]
       ELSE Return(p, "ok", None)

\* ------------------------------------------------------------- lock_vault
lock_vault(p) ==
    /\ At(p, "idle")
    /\ VaultState_lock
    /\ pc' = [pc EXCEPT ![p] = "done"]
    /\ loc' = [loc EXCEPT ![p] = [Idle EXCEPT !.cmd = "lock_vault", !.res = "ok"]]
    /\ UNCHANGED <<files, docs, lock_timeout, events, frontend, mutex, now, sched, nextSalt, nextRec>>

\* --------------------------------------------------------- vault_activity
vault_activity(p) ==
    /\ At(p, "idle")
    /\ VaultState_touch
    /\ pc' = [pc EXCEPT ![p] = "done"]
    /\ loc' = [loc EXCEPT ![p] = [Idle EXCEPT !.cmd = "vault_activity", !.res = "ok"]]
    /\ UNCHANGED <<files, docs, lock_timeout, events, frontend, mutex, now, sched, nextSalt, nextRec>>

\* ------------------------------------------------------- get_vault_status
get_vault_status_config(p) ==
    /\ Invoke(p, "get_vault_status", None, None, None, 0, "st_init")
    /\ UNCHANGED <<files, docs, kek, last_activity, lock_timeout, events, frontend, mutex, now,
                   sched, nextSalt, nextRec>>

\* get_vault_status taking initialized from the lock state
get_vault_status_initialized_from_lock(p) ==
    /\ At(p, "st_init")
    /\ Goto(p, "st_locked")
    /\ SetLoc(p, "out", [t |-> "status", initialized |-> VaultState_is_unlocked,
                         locked |-> TRUE, timeout_remaining |-> 0])
    /\ UNCHANGED <<files, docs, kek, last_activity, lock_timeout, events, frontend, mutex, now,
                   sched, nextSalt, nextRec>>

\* initialized: is_vault_initialized(&config)
get_vault_status_initialized(p) ==
    /\ At(p, "st_init")
    /\ Goto(p, "st_locked")
    /\ SetLoc(p, "out", [t |-> "status", initialized |-> is_vault_initialized,
                         locked |-> TRUE, timeout_remaining |-> 0])
    /\ UNCHANGED <<files, docs, kek, last_activity, lock_timeout, events, frontend, mutex, now,
                   sched, nextSalt, nextRec>>

\* locked: !state.is_unlocked()
get_vault_status_locked(p) ==
    /\ At(p, "st_locked")
    /\ MutexFree
    /\ Goto(p, "st_timeout")
    /\ SetLoc(p, "out", [loc[p].out EXCEPT !.locked = ~VaultState_is_unlocked])
    /\ UNCHANGED <<files, docs, kek, last_activity, lock_timeout, events, frontend, mutex, now,
                   sched, nextSalt, nextRec>>

\* timeout_remaining: state.time_until_lock()
get_vault_status_timeout(p) ==
    /\ At(p, "st_timeout")
    /\ MutexFree
    /\ \E frac \in BOOLEAN :
          Return(p, "ok", [loc[p].out EXCEPT
                              !.timeout_remaining = VaultState_time_until_lock(frac)])
    /\ UNCHANGED <<files, docs, kek, last_activity, lock_timeout, events, frontend, mutex, now,
                   sched, nextSalt, nextRec>>

\* ---------------------------------------------------------- recover_vault
recover_vault_config(p) ==
    /\ SaltLeft
    /\ \E rin \in RecoveryInputs, npw \in PasswordInputs :
          Invoke(p, "recover_vault", None, npw, rin, 0, "r_salt")
    /\ UNCHANGED <<files, docs, kek, last_activity, lock_timeout, events, frontend, mutex, now,
                   sched, nextSalt, nextRec>>

recover_vault_read_salt(p) == At(p, "r_salt") /\ ReadSalt(p, "r_recover")

\* RecoveryKey::from_input, fs::read(&config.recovery_path),
\* serde_json::from_slice, recover_kek: the recovered KEK is not used again
recover_vault_recover_kek(p) ==
    LET recovery_key == RecoveryKey_from_input(loc[p].rin)
        original_kek == RecoveryData_recover_kek(files.recovery, recovery_key, loc[p].salt)
    IN
    /\ At(p, "r_recover")
    /\ UNCHANGED <<files, docs, kek, last_activity, lock_timeout, events, frontend, mutex, now,
                   sched, nextSalt, nextRec>>
    /\ IF IsNone(files.recovery) THEN Return(p, "Failed to read recovery data", None)
       ELSE IF files.recovery.t # "json" THEN Return(p, "Invalid recovery data", None)
       ELSE IF ~original_kek.ok THEN Return(p, "Invalid recovery key", None)
       ELSE /\ Goto(p, "r_wsalt")
            /\ SetLoc(p, "salt", None)

recover_vault_write_salt(p) == At(p, "r_wsalt") /\ WriteSalt(p, "r_wverify")

recover_vault_write_verify(p) == At(p, "r_wverify") /\ WriteVerify(p, loc[p].npw, "r_wrecovery")

recover_vault_write_recovery(p) == At(p, "r_wrecovery") /\ WriteRecovery(p, "r_install")

\* recover_vault that installs the new KEK only into a Locked VaultState
recover_vault_unlock_if_locked(p) ==
    /\ At(p, "r_install")
    /\ MutexFree
    /\ kek' = IF IsNone(kek) THEN loc[p].kek ELSE kek
    /\ last_activity' = now
    /\ Return(p, "ok", loc[p].rkey)
    /\ UNCHANGED <<files, docs, lock_timeout, events, frontend, mutex, now, sched, nextSalt, nextRec>>

\* the re-wrap of the existing DEKs is a TODO: nothing is done to docs
recover_vault_unlock(p) == At(p, "r_install") /\ InstallNew(p)

\* -------------------------------------------------------- change_password
\* change_password without the check of the current password
change_password_config_no_verify(p) ==
    /\ SaltLeft
    /\ \E pw \in PasswordInputs, npw \in PasswordInputs :
          Invoke(p, "change_password", pw, npw, None, 0, "c_salt")
    /\ UNCHANGED <<files, docs, kek, last_activity, lock_timeout, events, frontend, mutex, now,
                   sched, nextSalt, nextRec>>

\* state.config(), then unlock_vault(current_password, state).await?
change_password_config(p) ==
    /\ SaltLeft
    /\ \E pw \in PasswordInputs, npw \in PasswordInputs :
          Invoke(p, "change_password", pw, npw, None, 0, "u_salt")
    /\ UNCHANGED <<files, docs, kek, last_activity, lock_timeout, events, frontend, mutex, now,
                   sched, nextSalt, nextRec>>

change_password_write_salt(p) == At(p, "c_salt") /\ WriteSalt(p, "c_verify")

\* change_password sealing the verify blob from the current password
change_password_write_verify_current(p) ==
    At(p, "c_verify") /\ WriteVerify(p, loc[p].pw, "c_recovery")

change_password_write_verify(p) == At(p, "c_verify") /\ WriteVerify(p, loc[p].npw, "c_recovery")

change_password_write_recovery(p) == At(p, "c_recovery") /\ WriteRecovery(p, "c_install")

change_password_unlock(p) == At(p, "c_install") /\ InstallNew(p)

\* ---------------------------------------------------- VaultState::with_kek
\* let inner = self.inner.lock().unwrap(); match &inner.kek: None is
\* Err("Vault is locked"), Some(kek) runs f(kek) with the guard still held.
with_kek(p, cmd, d) ==
    /\ At(p, "idle")
    /\ MutexFree
    /\ UNCHANGED <<files, docs, kek, last_activity, lock_timeout, events, frontend, now, sched,
                   nextSalt, nextRec>>
    /\ IF IsNone(kek)
       THEN /\ pc' = [pc EXCEPT ![p] = "done"]
            /\ loc' = [loc EXCEPT ![p] = [Idle EXCEPT !.cmd = cmd,
                                                     !.res = "Vault is locked"]]
            /\ UNCHANGED mutex
       ELSE /\ pc' = [pc EXCEPT ![p] = "wk_run"]
            /\ loc' = [loc EXCEPT ![p] = [Idle EXCEPT !.cmd = cmd, !.doc = d]]
            /\ mutex' = p

\* save_note of a new note: generate the DEK, wrap it with the KEK, save .key
save_note_with_kek(p) ==
    \E d \in Docs : IsNone(docs[d]) /\ with_kek(p, "save_note", d)

\* f(kek) = wrap_dek(kek, dek), with the reference to inner.kek taken at the match
save_note_wrap(p) ==
    /\ At(p, "wk_run")
    /\ loc[p].cmd = "save_note"
    /\ mutex' = 0
    /\ docs' = [docs EXCEPT ![loc[p].doc] = wrap_dek(kek, Dek(loc[p].doc))]
    /\ pc' = [pc EXCEPT ![p] = "done"]
    /\ loc' = [loc EXCEPT ![p] = [Idle EXCEPT !.cmd = "save_note", !.ran = TRUE,
                                             !.res = "ok"]]
    /\ UNCHANGED <<files, kek, last_activity, lock_timeout, events, frontend, now, sched, nextSalt, nextRec>>

\* read_note of an existing note: read the wrapped DEK, unwrap it with the KEK
read_note_with_kek(p) ==
    \E d \in Docs : ~IsNone(docs[d]) /\ with_kek(p, "read_note", d)

\* f(kek) = unwrap_dek(kek, wrapped)
read_note_unwrap(p) ==
    LET r == unwrap_dek(kek, docs[loc[p].doc]) IN
    /\ At(p, "wk_run")
    /\ loc[p].cmd = "read_note"
    /\ mutex' = 0
    /\ pc' = [pc EXCEPT ![p] = "done"]
    /\ loc' = [loc EXCEPT ![p] = [Idle EXCEPT !.cmd = "read_note", !.ran = TRUE,
                                             !.res = IF r.ok THEN "ok" ELSE r.err,
                                             !.out = r.v]]
    /\ UNCHANGED <<files, docs, kek, last_activity, lock_timeout, events, frontend, now, sched,
                   nextSalt, nextRec>>

\* ------------------------------------------------------- auto-lock timer
\* the background task wakes every second and calls should_lock()
timer_should_lock ==
    /\ sched = "sleep"
    /\ MutexFree
    /\ VaultState_should_lock
    /\ sched' = "lock"
    /\ UNCHANGED <<files, docs, kek, last_activity, lock_timeout, events, frontend, mutex, now, pc, loc,
                   nextSalt, nextRec>>

\* when it returned true: lock()
timer_lock ==
    /\ sched = "lock"
    /\ VaultState_lock
    /\ sched' = "emit"
    /\ UNCHANGED <<files, docs, lock_timeout, events, frontend, mutex, now, pc, loc, nextSalt, nextRec>>

\* then the 'vault-locked' event to the front end, and sleep until the next tick
timer_emit ==
    /\ sched = "emit"
    /\ sched' = "sleep"
    /\ events' = events + 1
    /\ UNCHANGED <<files, docs, kek, last_activity, lock_timeout, frontend, mutex, now, pc, loc,
                   nextSalt, nextRec>>

\* the clock
AdvanceTime ==
    /\ now < MaxNow
    /\ now' = now + TimeStep
    /\ UNCHANGED <<files, docs, kek, last_activity, lock_timeout, events, frontend, mutex, pc, loc,
                   sched, nextSalt, nextRec>>

\* the front end has taken the result of the command
Respond(p) ==
    /\ At(p, "done")
    /\ pc' = [pc EXCEPT ![p] = "idle"]
    /\ loc' = [loc EXCEPT ![p] = Idle]
    /\ UNCHANGED <<files, docs, kek, last_activity, lock_timeout, events, frontend, mutex, now,
                   sched, nextSalt, nextRec>>

TypeOK ==
    /\ mutex \in 0..NumProcs
    /\ now \in 0..(MaxNow + TimeStep)
    /\ last_activity \in 0..now
    /\ nextSalt \in 1..(MaxSalts + 1)
    /\ nextRec \in 1..(nextSalt + 1)
    /\ \A p \in Procs : pc[p] = "idle" <=> loc[p].cmd = "none"

\* The web view before App.svelte is mounted: the stores hold their initial
\* values, no event is queued, nothing is recording.
FrontendInit ==
    /\ events = 0
    /\ vaultReady = FALSE
    /\ vault_status = [initialized |-> FALSE, locked |-> TRUE, timeout_remaining |-> 0]
    /\ loading = FALSE
    /\ flow = [p \in Procs |-> "none"]
    /\ lastActivityTime = 0
    /\ date_now = StartMs
    /\ activity_log = <<>>
    /\ recording_status = "idle"
    /\ duration = 0
    /\ intervalId = 0
    /\ intervals = {}
    /\ timeouts = 0
    /\ toggles = 0

\* The artifacts setup_vault(password) leaves on disk.
SetupFiles(password, s, r) ==
    LET k == Kek_derive(password, Salt(s)) IN
    [salt |-> Salt(s),
     verify |-> encrypt(k, VERIFY_PLAINTEXT),
     recovery |-> RecoveryData_create(k, Rk(r, TRUE, FALSE), Salt(s))]

\* The process starts Locked (VaultState::default), on a disk that holds no
\* vault yet or the vault an earlier run set up.
Init ==
    /\ \/ /\ files = [salt |-> None, verify |-> None, recovery |-> None]
          /\ nextSalt = 1
          /\ nextRec = 1
       \/ /\ \E pw \in PasswordInputs : files = SetupFiles(pw, 1, 1)
          /\ nextSalt = 2
          /\ nextRec = 2
    /\ docs = [d \in Docs |-> None]
    /\ kek = None
    /\ last_activity = 0
    /\ lock_timeout = DEFAULT_LOCK_TIMEOUT
    /\ mutex = 0
    /\ now = 0
    /\ pc = [p \in Procs |-> "idle"]
    /\ loc = [p \in Procs |-> Idle]
    /\ sched = "sleep"
    /\ FrontendInit

\* the commands of vault.rs that read or write the persisted artifacts
VaultStep(p) ==
    \/ setup_vault_config(p)
    \/ setup_vault_write_salt(p)
    \/ setup_vault_write_verify(p)
    \/ setup_vault_write_recovery(p)
    \/ setup_vault_unlock(p)
    \/ unlock_vault_config(p)
    \/ unlock_vault_read_salt(p)
    \/ unlock_vault_verify(p)
    \/ unlock_vault_unlock(p)
    \/ lock_vault(p)
    \/ recover_vault_config(p)
    \/ recover_vault_read_salt(p)
    \/ recover_vault_recover_kek(p)
    \/ recover_vault_write_salt(p)
    \/ recover_vault_write_verify(p)
    \/ recover_vault_write_recovery(p)
    \/ recover_vault_unlock(p)
    \/ change_password_config(p)
    \/ change_password_write_salt(p)
    \/ change_password_write_verify(p)
    \/ change_password_write_recovery(p)
    \/ change_password_unlock(p)

\* the note commands, which reach the KEK through with_kek
NoteStep(p) ==
    \/ save_note_with_kek(p)
    \/ save_note_wrap(p)
    \/ read_note_with_kek(p)
    \/ read_note_unwrap(p)

\* the status query
StatusStep(p) ==
    \/ get_vault_status_config(p)
    \/ get_vault_status_initialized(p)
    \/ get_vault_status_locked(p)
    \/ get_vault_status_timeout(p)

\* Each worker thread runs one command; the commands interleave step by step.
Next == \E p \in Procs : VaultStep(p)

Spec == Init /\ [][Next]_vars

\* One command at a time, all on the first worker: the next is invoked when
\* the last has returned.
SeqNext == VaultStep(1) \/ NoteStep(1) \/ StatusStep(1) \/ Respond(1)

SeqSpec == Init /\ [][SeqNext]_vars

\* Lengths of a salt file that is not a salt: empty, one byte short, one long.
DamagedSaltLens == {0, SALT_SIZE - 1, SALT_SIZE + 1}
\* Lengths of a .key file that is not a wrapped DEK: empty, one byte short of
\* a nonce, a nonce and nothing else, and the length of a wrapped DEK.
DamagedKeyLens == {0, NONCE_SIZE - 1, NONCE_SIZE, NONCE_SIZE + KEY_SIZE + TAG_SIZE}

\* The process starts Locked on the vault and the notes an earlier run left
\* under the first password (a note may not have been saved yet), of which
\* the salt file or some .key files may since have been cut short, extended
\* or replaced on disk.
DamagedInit ==
    /\ \E unsaved \in SUBSET Docs :
          \/ /\ \E n \in DamagedSaltLens :
                   files = [SetupFiles(Pw(1), 1, 1) EXCEPT !.salt = Bytes(n)]
             /\ docs = [d \in Docs |->
                          IF d \in unsaved THEN None
                          ELSE wrap_dek(Kek_derive(Pw(1), Salt(1)), Dek(d))]
          \/ /\ files = SetupFiles(Pw(1), 1, 1)
             /\ \E damaged \in SUBSET Docs, n \in DamagedKeyLens :
                   docs = [d \in Docs |->
                             IF d \in unsaved THEN None
                             ELSE IF d \in damaged THEN Bytes(n)
                             ELSE wrap_dek(Kek_derive(Pw(1), Salt(1)), Dek(d))]
    /\ nextSalt = 2
    /\ nextRec = 2
    /\ kek = None
    /\ last_activity = 0
    /\ lock_timeout = DEFAULT_LOCK_TIMEOUT
    /\ mutex = 0
    /\ now = 0
    /\ pc = [p \in Procs |-> "idle"]
    /\ loc = [p \in Procs |-> Idle]
    /\ sched = "sleep"
    /\ FrontendInit

\* The commands that read the salt file or a .key file, one at a time on the
\* first worker, on such a disk.
DamagedNext ==
    \/ unlock_vault_config(1)
    \/ unlock_vault_read_salt(1)
    \/ unlock_vault_verify(1)
    \/ unlock_vault_unlock(1)
    \/ recover_vault_config(1)
    \/ recover_vault_read_salt(1)
    \/ recover_vault_recover_kek(1)
    \/ recover_vault_write_salt(1)
    \/ recover_vault_write_verify(1)
    \/ recover_vault_write_recovery(1)
    \/ recover_vault_unlock(1)
    \/ change_password_config(1)
    \/ change_password_write_salt(1)
    \/ change_password_write_verify(1)
    \/ change_password_write_recovery(1)
    \/ change_password_unlock(1)
    \/ NoteStep(1)
    \/ Respond(1)

DamagedSpec == DamagedInit /\ [][DamagedNext]_vars

\* The process starts Locked on the vault an earlier run set up, whose salt
\* is none of those OsRng gives in this run.
RekeyInit ==
    /\ \E pw \in PasswordInputs : files = SetupFiles(pw, 0, 1)
    /\ nextSalt = 1
    /\ nextRec = 2
    /\ docs = [d \in Docs |-> None]
    /\ kek = None
    /\ last_activity = 0
    /\ lock_timeout = DEFAULT_LOCK_TIMEOUT
    /\ mutex = 0
    /\ now = 0
    /\ pc = [p \in Procs |-> "idle"]
    /\ loc = [p \in Procs |-> Idle]
    /\ sched = "sleep"
    /\ FrontendInit

\* recover_vault and change_password, one invocation on each worker thread,
\* interleaved step by step.
RekeyNext ==
    \E p \in Procs :
       \/ recover_vault_config(p)
       \/ recover_vault_read_salt(p)
       \/ recover_vault_recover_kek(p)
       \/ recover_vault_write_salt(p)
       \/ recover_vault_write_verify(p)
       \/ recover_vault_write_recovery(p)
       \/ recover_vault_unlock(p)
       \/ change_password_config(p)
       \/ unlock_vault_read_salt(p)
       \/ unlock_vault_verify(p)
       \/ unlock_vault_unlock(p)
       \/ change_password_write_salt(p)
       \/ change_password_write_verify(p)
       \/ change_password_write_recovery(p)
       \/ change_password_unlock(p)

RekeySpec == RekeyInit /\ [][RekeyNext]_vars

\* The same commands on the same disk, one at a time on the first worker: a
\* re-keying and the attempts that follow it.
ReissueNext ==
    \/ recover_vault_config(1)
    \/ recover_vault_read_salt(1)
    \/ recover_vault_recover_kek(1)
    \/ recover_vault_write_salt(1)
    \/ recover_vault_write_verify(1)
    \/ recover_vault_write_recovery(1)
    \/ recover_vault_unlock(1)
    \/ change_password_config(1)
    \/ unlock_vault_read_salt(1)
    \/ unlock_vault_verify(1)
    \/ unlock_vault_unlock(1)
    \/ change_password_write_salt(1)
    \/ change_password_write_verify(1)
    \/ change_password_write_recovery(1)
    \/ change_password_unlock(1)
    \/ Respond(1)

ReissueSpec == RekeyInit /\ [][ReissueNext]_vars

\* Unlock, lock, activity and note commands, run again and again, interleaved
\* with the auto-lock timer task and the clock.
LockNext ==
    \/ \E p \in Procs :
          \/ unlock_vault_config(p)
          \/ unlock_vault_read_salt(p)
          \/ unlock_vault_verify(p)
          \/ unlock_vault_unlock(p)
          \/ lock_vault(p)
          \/ vault_activity(p)
          \/ NoteStep(p)
          \/ Respond(p)
    \/ timer_should_lock
    \/ timer_lock
    \/ timer_emit
    \/ AdvanceTime

LockSpec == Init /\ [][LockNext]_vars

\* One user at an initialized or empty vault: the four commands that install
\* a KEK, one after another, with the auto-lock timer task and the clock
\* running beside them.
InstallNext ==
    \/ setup_vault_config(1)
    \/ setup_vault_write_salt(1)
    \/ setup_vault_write_verify(1)
    \/ setup_vault_write_recovery(1)
    \/ setup_vault_unlock(1)
    \/ unlock_vault_config(1)
    \/ unlock_vault_read_salt(1)
    \/ unlock_vault_verify(1)
    \/ unlock_vault_unlock(1)
    \/ recover_vault_config(1)
    \/ recover_vault_read_salt(1)
    \/ recover_vault_recover_kek(1)
    \/ recover_vault_write_salt(1)
    \/ recover_vault_write_verify(1)
    \/ recover_vault_write_recovery(1)
    \/ recover_vault_unlock(1)
    \/ change_password_config(1)
    \/ change_password_write_salt(1)
    \/ change_password_write_verify(1)
    \/ change_password_write_recovery(1)
    \/ change_password_unlock(1)
    \/ Respond(1)
    \/ timer_should_lock
    \/ timer_lock
    \/ timer_emit
    \/ AdvanceTime

InstallSpec == Init /\ [][InstallNext]_vars

\* One user at an initialized or empty vault: unlock, lock, activity and
\* status calls one after another, with the auto-lock timer task and the clock
\* running beside them; no setup and no re-keying.
CycleNext ==
    \/ unlock_vault_config(1)
    \/ unlock_vault_read_salt(1)
    \/ unlock_vault_verify(1)
    \/ unlock_vault_unlock(1)
    \/ lock_vault(1)
    \/ vault_activity(1)
    \/ StatusStep(1)
    \/ Respond(1)
    \/ timer_should_lock
    \/ timer_lock
    \/ timer_emit
    \/ AdvanceTime

CycleSpec == Init /\ [][CycleNext]_vars

\* The clock of the model stops at MaxNow: activity is taken up to the last
\* moment from which a whole timeout can still be seen to pass.
CanReset == now + lock_timeout <= MaxNow

\* Unlock and activity commands, which may stop coming at any time, beside the
\* timer task, which wakes again and again, and the clock, which keeps going.
LiveNext ==
    \/ \E p \in Procs :
          \/ unlock_vault_config(p)
          \/ unlock_vault_read_salt(p)
          \/ unlock_vault_verify(p)
          \/ CanReset /\ unlock_vault_unlock(p)
          \/ CanReset /\ vault_activity(p)
          \/ Respond(p)
    \/ timer_should_lock
    \/ timer_lock
    \/ timer_emit
    \/ AdvanceTime

LiveSpec ==
    /\ Init
    /\ [][LiveNext]_vars
    /\ WF_vars(timer_should_lock)
    /\ WF_vars(timer_lock)
    /\ WF_vars(timer_emit)
    /\ WF_vars(AdvanceTime)

\* ================================================================ properties
Locked == IsNone(kek)
Unlocked == ~IsNone(kek)

\* salt and verify blob are both on disk
VaultPresent == ~IsNone(files.salt) /\ ~IsNone(files.verify)

\* the persisted verify blob is the one made from password pw and the persisted salt
VerifyCreatedWith(pw) ==
    /\ VaultPresent
    /\ files.verify = encrypt(Kek_derive(pw, files.salt), VERIFY_PLAINTEXT)

\* invocation p returns in this step
Returns(p) == pc[p] # "done" /\ pc'[p] = "done"

\* C1: unlock(password) on a Locked vault with salt and verify blob on disk
\* returns ok and leaves the vault Unlocked under derive(password, salt) when
\* the verify blob was made from that password and salt, and returns
\* "Wrong password" and leaves the vault Locked for every other password.
C1_UnlockContract ==
    [][\A p \in Procs :
         (loc[p].cmd = "unlock_vault" /\ Returns(p) /\ Locked /\ VaultPresent)
         => IF VerifyCreatedWith(loc[p].pw)
            THEN /\ loc'[p].res = "ok"
                 /\ kek' = Kek_derive(loc[p].pw, files.salt)
            ELSE /\ loc'[p].res = "Wrong password"
                 /\ IsNone(kek')]_vars

C1_Witness ==
    \E p \in Procs :
       /\ pc[p] = "done" /\ loc[p].cmd = "unlock_vault" /\ loc[p].res = "ok"
       /\ Unlocked /\ VerifyCreatedWith(kek.pw)

\* C2: after lock() the vault is Locked and lock() returned ok whatever the
\* state was; while it is Locked, status() reports locked and every with_kek
\* caller gets "Vault is locked" without its closure having run; the vault
\* becomes Unlocked again only in the step in which unlock_vault, setup_vault,
\* recover_vault or change_password calls VaultState::unlock.
C2_LockContract ==
    /\ [](\A p \in Procs : pc[p] = "done" =>
            /\ loc[p].cmd = "lock_vault" => (loc[p].res = "ok" /\ Locked)
            /\ loc[p].cmd = "get_vault_status" => (loc[p].out.locked <=> Locked)
            /\ (loc[p].cmd \in {"save_note", "read_note"} /\ Locked)
                  => (loc[p].res = "Vault is locked" /\ ~loc[p].ran))
    /\ [][(Locked /\ Unlocked') =>
            \E p \in Procs : /\ pc[p] \in {"u_install", "s_install", "r_install", "c_install"}
                             /\ pc'[p] # pc[p]]_vars

\* a note was saved, so the vault had been unlocked, and a later read finds it locked
C2_Witness ==
    \E p \in Procs :
       /\ pc[p] = "done" /\ loc[p].cmd = "read_note"
       /\ loc[p].res = "Vault is locked" /\ ~loc[p].ran /\ Locked

\* C3: while a with_kek closure runs, its caller holds the mutex and the KEK
\* is present: no lock() or auto-lock tick clears it before the closure ends.
C3_KeyPresentDuringWithKek ==
    \A p \in Procs : pc[p] = "wk_run" => (mutex = p /\ Unlocked)

\* a closure is running while the timer task, having seen should_lock, waits to lock
C3_Witness ==
    \E p \in Procs : pc[p] = "wk_run" /\ sched = "lock" /\ Unlocked

\* C4: setup_vault on a vault that is already initialized fails: it returns an
\* error, no recovery key, and writes nothing.
C4_SetupFailsWhenInitialized ==
    [][\A p \in Procs :
         (loc[p].cmd = "setup_vault" /\ pc[p] = "s_salt" /\ pc'[p] # "s_salt"
            /\ is_vault_initialized)
         => (pc'[p] = "done" /\ loc'[p].res # "ok" /\ files' = files)]_vars

\* salt, verify blob and recovery record all come from one key generation (or
\* there is no vault at all)
ArtifactsOfOneGeneration ==
    \/ IsNone(files.salt) /\ IsNone(files.verify) /\ IsNone(files.recovery)
    \/ /\ ~IsNone(files.salt) /\ ~IsNone(files.verify) /\ ~IsNone(files.recovery)
       /\ files.verify.k.salt = files.salt
       /\ files.verify = encrypt(files.verify.k, VERIFY_PLAINTEXT)
       /\ files.recovery.kek_bytes.pt = files.verify.k
       /\ files.recovery.kek_bytes.k.salt = files.salt

Rekeying == {"recover_vault", "change_password"}
WriteFailures == {"Failed to write salt", "Failed to write verify blob",
                  "Failed to write recovery key"}

\* C5: when recover_vault or change_password has returned ok, every note's
\* stored wrapped key unwraps under the installed (new) KEK to the note's DEK.
C5_DocKeysSurviveRekey ==
    \A p \in Procs :
       (pc[p] = "done" /\ loc[p].cmd \in Rekeying /\ loc[p].res = "ok")
       => \A d \in Docs : ~IsNone(docs[d]) => unwrap_dek(kek, docs[d]) = Ok(Dek(d))

\* C6: when recover_vault or change_password has returned, with ok or with a
\* write failure, salt, verify blob and recovery record are of one key
\* generation, and some password still opens the vault.
C6_RekeyAllOrNothing ==
    \A p \in Procs :
       (pc[p] = "done" /\ loc[p].cmd \in Rekeying /\ loc[p].res \in WriteFailures \cup {"ok"})
       => /\ ArtifactsOfOneGeneration
          /\ \E pw \in PasswordInputs : VerifyCreatedWith(pw)

\* C7: in every reachable state the persisted salt, verify blob and recovery
\* record belong to the same key generation.
C7_ArtifactsReplacedAtomically == ArtifactsOfOneGeneration

\* C8: when an unlock_vault and a concurrent change_password or recover_vault
\* have both returned ok and nothing is in flight, an Unlocked vault holds the
\* KEK under which the persisted verify blob was sealed.
C8_NoUnlockRekeyRace ==
    (/\ \A r \in Procs : pc[r] \in {"idle", "done"}
     /\ \E p, q \in Procs :
           /\ pc[p] = "done" /\ loc[p].cmd = "unlock_vault" /\ loc[p].res = "ok"
           /\ pc[q] = "done" /\ loc[q].cmd \in Rekeying /\ loc[q].res = "ok"
     /\ Unlocked)
    => files.verify = encrypt(kek, VERIFY_PLAINTEXT)

\* the persisted recovery record is the one made with recovery key rk and the
\* persisted salt, that is, rk is the secret the last setup or re-keying returned
RecoveryIssued(rk) ==
    /\ ~IsNone(files.salt) /\ ~IsNone(files.recovery)
    /\ files.recovery = RecoveryData_create(files.recovery.kek_bytes.pt, rk, files.salt)

\* C9: recover_vault with the recovery key that setup returned passes the
\* recovery check; when it has returned ok the vault is Unlocked under the key
\* of the new password and the persisted verify blob is the new password's
\* alone; unlock_vault returns ok exactly for the password of the persisted
\* verify blob and "Wrong password" for any other.
C9_RecoverThenUnlock ==
    [][\A p \in Procs :
         /\ (loc[p].cmd = "recover_vault" /\ pc[p] = "r_recover" /\ pc'[p] # "r_recover"
               /\ RecoveryIssued(loc[p].rin))
            => pc'[p] = "r_wsalt"
         /\ (loc[p].cmd = "recover_vault" /\ Returns(p) /\ loc'[p].res = "ok")
            => /\ kek' = Kek_derive(loc[p].npw, files'.salt)
               /\ \A pw \in PasswordInputs : VerifyCreatedWith(pw)' <=> pw = loc[p].npw
         /\ (loc[p].cmd = "unlock_vault" /\ Returns(p) /\ VaultPresent)
            => /\ loc'[p].res = "ok" <=> VerifyCreatedWith(loc[p].pw)
               /\ loc'[p].res \in {"ok", "Wrong password"}]_vars

\* recover_vault has returned ok with a new recovery key
C9_Witness ==
    \E p \in Procs :
       /\ pc[p] = "done" /\ loc[p].cmd = "recover_vault" /\ loc[p].res = "ok"
       /\ Unlocked /\ VerifyCreatedWith(kek.pw) /\ RecoveryIssued(loc[p].out)

\* C10: change_password writes the salt, its first write, only when the
\* current password it was given opens the persisted verify blob, and writes
\* the other two files only after that salt; given a current password that
\* does not open it, the call returns "Wrong password" and has written nothing.
C10_ChangePasswordWrongCurrent ==
    [][\A p \in Procs : loc[p].cmd = "change_password" =>
         /\ files'.salt # files.salt => VerifyCreatedWith(loc[p].pw)
         /\ (files' # files /\ files'.salt = files.salt) => loc[p].salt = files.salt
         /\ (pc[p] = "u_verify" /\ pc'[p] # "u_verify" /\ VaultPresent
               /\ ~VerifyCreatedWith(loc[p].pw))
            => /\ pc'[p] = "done" /\ loc'[p].res = "Wrong password"
               /\ files' = files]_vars

\* a change_password has returned "Wrong password" on an intact vault
C10_Witness ==
    \E p \in Procs :
       /\ pc[p] = "done" /\ loc[p].cmd = "change_password"
       /\ loc[p].res = "Wrong password"
       /\ ArtifactsOfOneGeneration /\ VaultPresent

\* the VaultState fields and persisted artifacts a failed call must leave alone
VaultUnchanged == UNCHANGED <<kek, last_activity, lock_timeout, files, docs>>

\* the steps of unlock_vault, change_password and recover_vault up to and
\* including the check of the password or recovery key
BeforeAuth(p) ==
    \/ pc[p] = "idle" /\ loc'[p].cmd \in {"unlock_vault", "change_password", "recover_vault"}
    \/ pc[p] \in {"u_salt", "u_verify", "r_salt", "r_recover"} /\ pc'[p] # pc[p]

\* C11: unlock_vault or change_password given a password that does not open
\* the persisted verify blob, and recover_vault given a recovery key that does
\* not open the persisted recovery record, return an error at the check, and
\* no step of the call up to that return changes the KEK in VaultState,
\* last_activity or any persisted file, whether the vault is Locked or Unlocked.
C11_AuthFailureLeavesStateUnchanged ==
    [][\A p \in Procs :
         /\ BeforeAuth(p) => VaultUnchanged
         /\ (pc[p] = "u_verify" /\ pc'[p] # pc[p] /\ ~VerifyCreatedWith(loc[p].pw))
            => /\ pc'[p] = "done"
               /\ loc'[p].res \in {"Wrong password", "Failed to read verify blob"}
         /\ (pc[p] = "r_recover" /\ pc'[p] # pc[p]
               /\ ~RecoveryIssued(Canonical(loc[p].rin)))
            => /\ pc'[p] = "done"
               /\ loc'[p].res \in {"Invalid recovery key", "Failed to read recovery data"}
         /\ (Returns(p) /\ loc'[p].res \in {"Wrong password", "Invalid recovery key"})
            => pc[p] \in {"u_verify", "r_recover"}]_vars

\* a wrong password was refused while the vault was Unlocked, and it still is
C11_Witness ==
    \E p \in Procs :
       /\ pc[p] = "done" /\ loc[p].cmd \in {"unlock_vault", "change_password"}
       /\ loc[p].res = "Wrong password"
       /\ Unlocked /\ VerifyCreatedWith(kek.pw)

\* a step taken while invocation p runs change_password, its first included
DuringChangePassword(p) ==
    \/ pc[p] = "idle" /\ loc'[p].cmd = "change_password"
    \/ loc[p].cmd = "change_password" /\ pc[p] # "done"

\* what C12 says of every change_password, with "current" excluded or not
ChangePasswordContract(current_must_fail) ==
    \A p \in Procs :
       /\ \A c \in PasswordInputs, n \in PasswordInputs :
             (/\ loc[p].cmd = "change_password" /\ loc[p].pw = c /\ loc[p].npw = n
              /\ Returns(p) /\ loc'[p].res = "ok")
             => /\ kek' = Kek_derive(n, files'.salt)
                /\ VerifyCreatedWith(n)'
                /\ current_must_fail[c, n] => ~VerifyCreatedWith(c)'
       /\ (loc[p].cmd = "unlock_vault" /\ Returns(p) /\ VaultPresent)
          => IF VerifyCreatedWith(loc[p].pw)
             THEN loc'[p].res = "ok" /\ Unlocked'
             ELSE loc'[p].res = "Wrong password"
       /\ (DuringChangePassword(p) /\ Unlocked) => Unlocked'

\* C12 as stated: after change_password(current, new) has returned ok the
\* vault is Unlocked under the key of the new password, unlock(new) returns ok
\* and unlock(current) returns "Wrong password", for every current and new;
\* a vault that was Unlocked is not Locked by any step of the call.
C12_ChangePasswordAnyPasswords ==
    [][ChangePasswordContract([c \in PasswordInputs, n \in PasswordInputs |-> TRUE])]_vars

\* C12 amended: the same, with unlock(current) failing when the current
\* password differs from the new one: change_password accepts a new password
\* equal to the current one, and unlock(current) then succeeds.
C12_ChangePasswordThenUnlock ==
    [][ChangePasswordContract([c \in PasswordInputs, n \in PasswordInputs |-> c # n])]_vars

\* change_password has returned ok and the vault is Unlocked under the key
\* the persisted verify blob is sealed with
C12_Witness ==
    \E p \in Procs :
       /\ pc[p] = "done" /\ loc[p].cmd = "change_password" /\ loc[p].res = "ok"
       /\ Unlocked /\ files.verify = encrypt(kek, VERIFY_PLAINTEXT)
       /\ RecoveryIssued(loc[p].out)

\* C13: with no setup or re-keying running, whatever lock, activity, status,
\* unlock calls and auto-lock ticks came before, the persisted vault stays the
\* one its password opens, and unlock_vault given that password returns ok
\* and leaves the vault Unlocked under the key of that password.
C13_UnlockAlwaysPossible ==
    /\ [](is_vault_initialized => \E c \in PasswordInputs : VerifyCreatedWith(c))
    /\ [][\A c \in PasswordInputs :
            /\ VerifyCreatedWith(c) => VerifyCreatedWith(c)'
            /\ \A p \in Procs :
                  (loc[p].cmd = "unlock_vault" /\ loc[p].pw = c /\ Returns(p)
                     /\ VerifyCreatedWith(c))
                  => /\ loc'[p].res = "ok"
                     /\ Unlocked'
                     /\ kek' = Kek_derive(c, files.salt)]_vars

\* an unlock has succeeded after the inactivity timeout had run out
C13_Witness ==
    \E p \in Procs :
       /\ pc[p] = "done" /\ loc[p].cmd = "unlock_vault" /\ loc[p].res = "ok"
       /\ Unlocked /\ now >= lock_timeout /\ last_activity = now

\* invocation p calls VaultState::touch in this step
Touches(p) == pc[p] = "idle" /\ pc'[p] = "done" /\ loc'[p].cmd = "vault_activity"

\* invocation p calls VaultState::unlock in this step
Installs(p) ==
    /\ pc[p] \in {"u_install", "s_install", "r_install", "c_install"}
    /\ pc'[p] # pc[p]

\* C14: should_lock is true only in states where the vault is Unlocked and
\* now - last_activity >= lock_timeout; last_activity is the time of the last
\* touch or key installation and of nothing else, so should_lock is false
\* right after either and turns true only by the clock advancing.
C14_ShouldLockOnlyAfterTimeout ==
    /\ [](VaultState_should_lock => (Unlocked /\ now - last_activity >= lock_timeout))
    /\ [](now - last_activity < lock_timeout => ~VaultState_should_lock)
    /\ [][/\ \A p \in Procs :
                (Touches(p) \/ Installs(p))
                => (last_activity' = now /\ ~VaultState_should_lock')
          /\ (last_activity' # last_activity)
                => (\E p \in Procs : Touches(p) \/ Installs(p))
          /\ (~VaultState_should_lock /\ VaultState_should_lock') => (now' > now)]_vars

\* the timeout has run out on a vault that an unlock_vault left Unlocked, and
\* the timer task has not yet looked
C14_Witness ==
    /\ VaultState_should_lock /\ sched = "sleep"
    /\ now - last_activity >= lock_timeout
    /\ \E p \in Procs : pc[p] = "done" /\ loc[p].cmd = "unlock_vault" /\ loc[p].res = "ok"

\* what C15 says of touch and of the status read that follows a touch (or a
\* key installation) made after the start, for the values in Reported that a
\* read may return before the clock shows a whole second more
TouchContract(Reported) ==
    \A p \in Procs :
       /\ Touches(p) => (VaultState_time_until_lock(FALSE)' = lock_timeout')
       /\ (loc[p].cmd = "get_vault_status" /\ Returns(p)
             /\ last_activity = now /\ now > 0)
          => loc'[p].out.timeout_remaining \in Reported

\* C15 as stated: right after VaultState::touch, whatever now - last_activity
\* was before, time_until_lock and the timeout_remaining of get_vault_status
\* are the whole lock_timeout.
C15_TouchGivesFullTimeout == [][TouchContract({lock_timeout})]_vars

\* C15 amended: touch sets the remaining time to the whole lock_timeout
\* whatever now - last_activity was before; read at the instant of the touch
\* time_until_lock is lock_timeout, and once a fraction of a second has passed
\* it is lock_timeout - 1, the remaining time cut to whole seconds.
C15_TouchResetsRemainingTime ==
    [][TouchContract({lock_timeout, lock_timeout - 1})]_vars

\* a status read right after a touch that was made when the timeout had run out
C15_Witness ==
    \E p \in Procs :
       /\ pc[p] = "done" /\ loc[p].cmd = "get_vault_status"
       /\ now >= lock_timeout /\ last_activity = now
       /\ loc[p].out.timeout_remaining = lock_timeout - 1

\* C16: whenever the timer task clears the KEK of an Unlocked vault, the
\* inactivity timeout has run out at that moment: now - last_activity >=
\* lock_timeout in the state in which VaultState::lock is called.
C16_AutoLockOnlyAfterTimeout ==
    [][(sched = "lock" /\ sched' = "emit" /\ Unlocked /\ Locked')
         => now - last_activity >= lock_timeout]_vars

\* C17: when the commands that touch or unlock have stopped coming, the timer
\* task keeps waking and the clock keeps going, an Unlocked vault becomes Locked.
C17_AutoLockLive == Unlocked ~> Locked

\* the vault an unlock_vault had opened is Locked again, by the timer task,
\* after the timeout has run out
C17_Witness ==
    /\ Locked /\ sched = "sleep" /\ now - last_activity >= lock_timeout
    /\ \E p \in Procs : pc[p] = "done" /\ loc[p].cmd = "unlock_vault" /\ loc[p].res = "ok"

\* the next step of the command starts with Kek::derive: of the candidate or
\* new KEK, or of the recovery KEK in RecoveryData::create / recover_kek
DeriveLabels == {"u_verify", "s_verify", "r_wverify", "c_verify",
                 "r_recover", "s_recovery", "r_wrecovery", "c_recovery"}

\* C18: while unlock_vault, setup_vault, recover_vault or change_password is
\* about to run Kek::derive, the command does not hold the VaultState mutex
\* and the mutex is free: a vault_activity or get_vault_status that another
\* thread issues at that moment can take its step at once.
C18_DeriveOutsideLock ==
    \A p \in Procs :
       pc[p] \in DeriveLabels
       => /\ mutex # p
          /\ MutexFree
          /\ \A q \in Procs \ {p} :
                pc[q] = "idle" => /\ ENABLED vault_activity(q)
                                  /\ ENABLED get_vault_status_config(q)

\* change_password is about to derive the new KEK while the vault is Unlocked
C18_Witness ==
    \E p \in Procs, q \in Procs :
       /\ pc[p] = "c_verify" /\ loc[p].cmd = "change_password" /\ Unlocked
       /\ q # p /\ pc[q] = "idle"

\* C19: at every step of recover_vault or change_password and after it has
\* returned or stopped, once the persisted salt and verify blob are those of
\* the new KEK, the ones unlock_vault validates against, every stored wrapped
\* DEK unwraps under that KEK: the re-wrap is complete before the commit, and
\* no note is left that the key of the persisted vault cannot read.
C19_RewrapBeforeCommit ==
    \A p \in Procs :
       (loc[p].cmd \in Rekeying /\ ~IsNone(files.verify) /\ files.verify.k.salt = files.salt)
       => \A d \in Docs :
             ~IsNone(docs[d]) => unwrap_dek(files.verify.k, docs[d]) = Ok(Dek(d))

\* C20: recover_vault given the recovery key that opens the persisted
\* recovery record gets past the recovery check and, unless an fs::write
\* fails, returns ok; when it returns ok the vault is Unlocked under the key of
\* the new password and the new salt, the key the persisted verify blob is
\* sealed with, whether the vault was Locked or Unlocked with the old key.
C20_RecoverEndsUnlocked ==
    [][\A p \in Procs : \A n \in PasswordInputs :
         (loc[p].cmd = "recover_vault" /\ loc[p].npw = n) =>
            /\ (pc[p] = "r_recover" /\ pc'[p] # pc[p] /\ RecoveryIssued(loc[p].rin))
               => pc'[p] = "r_wsalt"
            /\ (pc[p] \in {"r_wsalt", "r_wverify", "r_wrecovery", "r_install"} /\ Returns(p))
               => loc'[p].res \in WriteFailures \cup {"ok"}
            /\ (Returns(p) /\ loc'[p].res = "ok")
               => /\ Unlocked'
                  /\ kek' = Kek_derive(n, files'.salt)
                  /\ files'.verify = encrypt(kek', VERIFY_PLAINTEXT)
                  /\ kek' # kek]_vars

\* recover_vault has returned ok on a vault that had been Unlocked under the
\* old key: the note saved then is still wrapped under that key
C20_Witness ==
    \E p \in Procs :
       /\ pc[p] = "done" /\ loc[p].cmd = "recover_vault" /\ loc[p].res = "ok"
       /\ Unlocked /\ files.verify = encrypt(kek, VERIFY_PLAINTEXT)
       /\ \E d \in Docs : ~IsNone(docs[d]) /\ docs[d].k # kek

\* a persisted value that holds a KEK only sealed under a key derived from a
\* recovery key, and no KEK at all when it is not the recovery record
NoRawKek(x) ==
    \/ IsNone(x)
    \/ x.t = "salt"
    \/ x.t = "ct" /\ x.pt.t \in {"marker", "dek"}
    \/ /\ x.t = "json"
       /\ x.kek_bytes.t = "ct"
       /\ x.kek_bytes.pt.t = "kek"
       /\ x.kek_bytes.k.t = "kek"
       /\ x.kek_bytes.k.pw.kind = "rk"

\* C21: in every reachable state the salt file is a salt, the verify file is
\* the sealed marker, every .key file is a sealed DEK, and the recovery record
\* is the KEK sealed under a key derived from a recovery key: no file holds
\* the bytes of a KEK unsealed.
C21_NoRawKekOnDisk ==
    /\ NoRawKek(files.salt) /\ files.salt.t \in {"none", "salt"}
    /\ NoRawKek(files.verify) /\ files.verify.t \in {"none", "ct"}
    /\ NoRawKek(files.recovery) /\ files.recovery.t \in {"none", "json"}
    /\ \A d \in Docs : NoRawKek(docs[d]) /\ docs[d].t \in {"none", "ct"}

\* the vault is Unlocked, all three files and a .key file are on disk, and the
\* recovery record seals the very KEK that is installed
C21_Witness ==
    /\ Unlocked /\ VaultPresent /\ ~IsNone(files.recovery)
    /\ files.recovery.kek_bytes.pt = kek
    /\ \E d \in Docs : ~IsNone(docs[d])

\* C23: the timer task leaves its sleep only on a tick on which the vault is
\* Unlocked with the timeout run out, calls lock(), which leaves the vault
\* Locked, and emits the 'vault-locked' event once before it sleeps again;
\* an event is emitted only after such a lock(), and each lock() of the timer
\* is followed by its event.
C23_NotifyOncePerAutoLock ==
    /\ [][/\ (sched = "sleep" /\ sched' # "sleep")
              => (Unlocked /\ now - last_activity >= lock_timeout /\ sched' = "lock")
          /\ (sched = "lock" /\ sched' # "lock") => (sched' = "emit" /\ Locked')
          /\ (sched = "emit" /\ sched' # "emit") => (sched' = "sleep")
          /\ (sched' = "emit" /\ sched # "emit") => (sched = "lock")]_vars
    /\ (sched = "lock") ~> (sched = "emit")
    /\ (sched = "emit") ~> (sched = "sleep")

\* the timer task has locked the vault and its event is about to go out
C23_Witness == sched = "emit" /\ Locked /\ now - last_activity >= lock_timeout

\* C24: vault_activity returns ok from Locked and from Unlocked, sets
\* last_activity to now and changes nothing else: the KEK, present or not, the
\* lock_timeout, the three vault files and the .key files are as before.
C24_TouchChangesOnlyLastActivity ==
    [][\A p \in Procs :
         /\ Touches(p)
            => /\ loc'[p].res = "ok"
               /\ last_activity' = now
               /\ UNCHANGED <<kek, lock_timeout, files, docs, mutex, now>>
         /\ (pc[p] = "idle" /\ MutexFree) => ENABLED vault_activity(p)]_vars

\* a touch of an Unlocked vault after the timeout had run out: the KEK is
\* still there
C24_Witness ==
    \E p \in Procs :
       /\ pc[p] = "done" /\ loc[p].cmd = "vault_activity" /\ loc[p].res = "ok"
       /\ Unlocked /\ now >= lock_timeout /\ last_activity = now

\* all three vault files are on disk
AllArtifactsPresent == VaultPresent /\ ~IsNone(files.recovery)

\* C25: no step of lock_vault, the timer task, vault_activity,
\* get_vault_status or unlock_vault, successful or failed, changes whether the
\* vault is initialized, and get_vault_status returns initialized exactly
\* when the persisted vault files are on disk, with the vault Locked or Unlocked.
C25_InitializedIndependentOfLock ==
    /\ [][is_vault_initialized' = is_vault_initialized /\ files' = files]_vars
    /\ [](\A p \in Procs :
            (pc[p] = "done" /\ loc[p].cmd = "get_vault_status")
            => /\ loc[p].out.initialized = is_vault_initialized
               /\ loc[p].out.initialized = AllArtifactsPresent)

\* status of an initialized vault read while it is Unlocked, after the timeout
C25_Witness ==
    \E p \in Procs :
       /\ pc[p] = "done" /\ loc[p].cmd = "get_vault_status"
       /\ loc[p].out.initialized /\ ~loc[p].out.locked /\ Unlocked

\* the salt file is there and is not 32 bytes long
MalformedSalt == ~IsNone(files.salt) /\ ByteLen(files.salt) # SALT_SIZE

ReadsSalt == {"unlock_vault", "recover_vault", "change_password"}

\* C26: with a salt file that is not exactly 32 bytes long, no step of
\* unlock_vault, recover_vault or change_password writes a file or changes the
\* KEK in memory, the step that reads the salt returns without keeping any
\* salt, and the command returns the error "Invalid salt file".
C26_MalformedSaltRejected ==
    /\ [][\A p \in Procs :
             (loc[p].cmd \in ReadsSalt /\ pc[p] # "done" /\ MalformedSalt)
             => /\ files' = files /\ docs' = docs /\ kek' = kek
                /\ pc[p] \in {"u_salt", "r_salt"}
                /\ pc'[p] = "done"
                /\ loc'[p].salt = None]_vars
    /\ [](\A p \in Procs :
            (pc[p] = "done" /\ loc[p].cmd \in ReadsSalt /\ MalformedSalt)
            => /\ loc[p].res = "Invalid salt file"
               /\ loc[p].out = None)

\* change_password has returned on a salt file one byte short
C26_Witness ==
    \E p \in Procs :
       /\ pc[p] = "done" /\ loc[p].cmd = "change_password"
       /\ loc[p].res = "Invalid salt file"
       /\ files.salt = Bytes(SALT_SIZE - 1)

\* every key Kek::derive can give in these runs
DerivableKeks == {Kek_derive(pw, Salt(i)) : pw \in PasswordInputs, i \in SaltIds}

\* read_note runs its closure on the .key file of its note
ReadsKeyFile(p) ==
    pc[p] = "wk_run" /\ loc[p].cmd = "read_note" /\ pc'[p] = "done"

C29_ShortCiphertextIsFormatError ==
    /\ [](\A k \in DerivableKeks \cup {kek}, n \in DamagedKeyLens :
            /\ n < NONCE_SIZE => decrypt(k, Bytes(n)) = Err("Ciphertext too short")
            /\ n >= NONCE_SIZE => decrypt(k, Bytes(n)) = Err("Decryption failed")
            /\ decrypt(k, Bytes(n)).v = None)
    /\ [][\A p \in Procs :
             ReadsKeyFile(p)
             => LET w == docs[loc[p].doc] IN
                /\ ByteLen(w) < NONCE_SIZE
                   => loc'[p].res = "Ciphertext too short" /\ loc'[p].out = None
                /\ (ByteLen(w) >= NONCE_SIZE /\ (w.t # "ct" \/ w.k # kek))
                   => loc'[p].res = "Decryption failed" /\ loc'[p].out = None]_vars

\* read_note has failed on a .key file one byte short of a nonce
C29_Witness ==
    \E p \in Procs :
       /\ pc[p] = "done" /\ loc[p].cmd = "read_note"
       /\ loc[p].res = "Ciphertext too short"
       /\ \A d \in Docs : docs[d] = Bytes(NONCE_SIZE - 1)

\* the recovery check of recover_vault is decided for the input of p
RecoveryChecked(p) == pc[p] = "r_recover" /\ pc'[p] # pc[p]

\* C28: recover_vault given the recovery key that the last setup or re-keying
\* returned, typed with dashes or white-space characters put in or left out,
\* passes the recovery check as it does for the key as displayed.
C28_RecoveryInputAnyWhitespace ==
    [][\A p \in Procs :
         (RecoveryChecked(p) /\ RecoveryIssued(Canonical(loc[p].rin)))
         => pc'[p] = "r_wsalt"]_vars

\* C30: when two concurrent re-keying commands (recover_vault,
\* change_password, or two of one) have both returned ok, the persisted salt,
\* verify blob and recovery record are those of one of the two, the one whose
\* recovery key opens the recovery record, and the installed KEK is the key
\* that command sealed the verify blob with.
C30_ConcurrentRekeyOneWinner ==
    \A p, q \in Procs :
       (/\ p # q
        /\ pc[p] = "done" /\ loc[p].cmd \in Rekeying /\ loc[p].res = "ok"
        /\ pc[q] = "done" /\ loc[q].cmd \in Rekeying /\ loc[q].res = "ok")
       => /\ ArtifactsOfOneGeneration
          /\ RecoveryIssued(loc[p].out) \/ RecoveryIssued(loc[q].out)
          /\ files.verify = encrypt(kek, VERIFY_PLAINTEXT)

\* C31: when setup_vault has returned an error after it wrote the salt, on a
\* disk that held no vault, the vault is not initialized (is_vault_initialized
\* is false, as isSetup and get_vault_status report it) and no KEK is installed.
C31_FailedSetupNotInitialized ==
    \A p \in Procs :
       (/\ pc[p] = "done" /\ loc[p].cmd = "setup_vault"
        /\ loc[p].res \in {"Failed to write verify blob", "Failed to write recovery key"}
        /\ ~AllArtifactsPresent)
       => ~is_vault_initialized /\ Locked

\* the recovery keys OsRng can have given, as displayed
DisplayedKeys == {Rk(i, TRUE, FALSE) : i \in 1..(MaxSalts + 1)}

\* C32: when recover_vault or change_password has returned ok, the recovery
\* key it returned opens the persisted recovery record and no key issued
\* before does; recover_vault given a key that does not open the record
\* returns "Invalid recovery key" at its check, having changed nothing, and
\* given the key as displayed that opens it, passes the check.
C32_OldRecoveryKeyRevoked ==
    /\ [](\A p \in Procs :
            (pc[p] = "done" /\ loc[p].cmd \in Rekeying /\ loc[p].res = "ok")
            => /\ RecoveryIssued(loc[p].out)
               /\ \A rk \in DisplayedKeys \ {loc[p].out} : ~RecoveryIssued(rk))
    /\ [][\A p \in Procs :
             RecoveryChecked(p)
             => /\ VaultUnchanged
                /\ ~RecoveryIssued(Canonical(loc[p].rin))
                   => pc'[p] = "done" /\ loc'[p].res = "Invalid recovery key"
                /\ (RecoveryIssued(loc[p].rin) /\ loc[p].rin \in DisplayedKeys)
                   => pc'[p] = "r_wsalt"]_vars

\* after a re-keying that returned a second recovery key, recover_vault was
\* refused at its check
C32_Witness ==
    \E p \in Procs :
       /\ pc[p] = "done" /\ loc[p].cmd = "recover_vault"
       /\ loc[p].res = "Invalid recovery key"
       /\ nextRec = 3 /\ RecoveryIssued(Rk(2, TRUE, FALSE))
       /\ ~RecoveryIssued(Rk(1, TRUE, FALSE))

\* C33: every call of VaultState::unlock, by unlock_vault, setup_vault,
\* recover_vault or change_password, leaves the vault Unlocked with
\* last_activity = now, so with lock_timeout > 0 should_lock is false right
\* after it, however long the vault had been idle; and a tick of the timer
\* task that finds less than lock_timeout elapsed goes back to sleep without
\* calling lock().
C33_InstallResetsIdleTime ==
    /\ [](lock_timeout > 0)
    /\ [][\A p \in Procs :
             Installs(p)
             => /\ Unlocked'
                /\ last_activity' = now
                /\ ~VaultState_should_lock']_vars
    /\ []((sched = "sleep" /\ Elapsed < lock_timeout) => ~ENABLED timer_should_lock)

\* a re-keying has installed its KEK after the timeout of the old one had run
\* out, and the timer task is between ticks
C33_Witness ==
    \E p \in Procs :
       /\ pc[p] = "done" /\ loc[p].cmd \in Rekeying /\ loc[p].res = "ok"
       /\ Unlocked /\ last_activity = now /\ now >= lock_timeout
       /\ sched = "sleep" /\ ~VaultState_should_lock

\* C34: should_lock is false in every state in which the vault is Locked,
\* whatever the elapsed time, and the timer task calls lock(), and then emits
\* its event, only on a vault that is Unlocked when lock() is called.
C34_NoAutoLockOfLockedVault ==
    /\ [](Locked => ~VaultState_should_lock)
    /\ [][(sched = "lock" /\ sched' = "emit") => Unlocked]_vars

\* ------------------------------------------------ App.svelte: trackActivity
\* trackActivity that calls invoke and does not store the time of the call
App_trackActivity_forgets ==
    /\ Len(activity_log) < MaxEvents
    /\ IF date_now - lastActivityTime > THROTTLE_MS
       THEN activity_log' = Append(activity_log, [at |-> date_now, invoked |-> TRUE])
       ELSE activity_log' = Append(activity_log, [at |-> date_now, invoked |-> FALSE])
    /\ UNCHANGED <<backend, events, vaultReady, vault_status, loading, flow,
                   lastActivityTime, date_now, recording_status, duration, intervalId,
                   intervals, timeouts, toggles>>

\* a keydown or click on the window: trackActivity()
App_trackActivity ==
    /\ Len(activity_log) < MaxEvents
    /\ IF date_now - lastActivityTime > THROTTLE_MS
       THEN /\ lastActivityTime' = date_now
            /\ activity_log' = Append(activity_log, [at |-> date_now, invoked |-> TRUE])
       ELSE /\ UNCHANGED lastActivityTime
            /\ activity_log' = Append(activity_log, [at |-> date_now, invoked |-> FALSE])
    /\ UNCHANGED <<backend, events, vaultReady, vault_status, loading, flow, date_now,
                   recording_status, duration, intervalId, intervals, timeouts, toggles>>

\* Date.now() moves on
AdvanceDate ==
    /\ date_now + MsStep <= MaxMs
    /\ date_now' = date_now + MsStep
    /\ UNCHANGED <<backend, events, vaultReady, vault_status, loading, flow,
                   lastActivityTime, activity_log, recording_status, duration,
                   intervalId, intervals, timeouts, toggles>>

\* Keydown and click events on the window as time passes.
ActivityNext == App_trackActivity \/ AdvanceDate

ActivitySpec == Init /\ [][ActivityNext]_vars

\* the positions in activity_log at which invoke('vault_activity') was called
Invocations == {i \in 1..Len(activity_log) : activity_log[i].invoked}

\* C37: any two calls of invoke('vault_activity') by trackActivity, with no
\* call between them, are more than 1000 ms of Date.now() apart, however many
\* keydown and click events are handled in between; an event handled 1000 ms
\* or less after the last call calls nothing.
C37_ActivityThrottled ==
    /\ \A i, j \in Invocations :
          i < j => activity_log[j].at - activity_log[i].at > THROTTLE_MS
    /\ \A j \in 1..Len(activity_log) :
          (\E i \in Invocations : i < j /\ activity_log[j].at - activity_log[i].at <= THROTTLE_MS)
          => ~activity_log[j].invoked

\* two calls with two throttled events between them
C37_Witness ==
    \E i, j \in Invocations :
       /\ j = i + 3
       /\ ~activity_log[i + 1].invoked /\ ~activity_log[i + 2].invoked

----------------------------------------------------------------------------
\* The recording store (src/lib/stores/recording.svelte.ts) and the two
\* handlers that toggle it.

MaxTimers == 3         \* setInterval calls made
MaxTimeouts == 2       \* stopRecording calls whose setTimeout has not fired
MaxDuration == 3       \* seconds an interval timer counts
MaxToggles == 6        \* record-toggle events handled

\* App.svelte and vault store state, which the recording store never touches
ui == <<vaultReady, vault_status, loading, flow, lastActivityTime, date_now,
        activity_log>>

\* recording.svelte.ts: the module's state and the timers it has created
recording == <<recording_status, duration, intervalId, intervals, timeouts>>

\* startRecording(): setInterval returns a fresh id, which replaces intervalId
startRecording ==
    /\ intervalId < MaxTimers
    /\ recording_status' = "recording"
    /\ duration' = 0
    /\ intervalId' = intervalId + 1
    /\ intervals' = intervals \cup {intervalId + 1}
    /\ UNCHANGED <<timeouts, backend, events, ui>>

\* stopRecording() up to its await: clearInterval(intervalId) (a no-op for an
\* id that is undefined or already cleared), then the 1500 ms setTimeout
stopRecording ==
    /\ timeouts < MaxTimeouts
    /\ intervals' = intervals \ {intervalId}
    /\ recording_status' = "processing"
    /\ timeouts' = timeouts + 1
    /\ UNCHANGED <<duration, intervalId, backend, events, ui>>

\* stopRecording() after its await: the setTimeout has fired
stopRecording_resume ==
    /\ timeouts > 0
    /\ timeouts' = timeouts - 1
    /\ recording_status' = "idle"
    /\ duration' = 0
    /\ UNCHANGED <<intervalId, intervals, backend, events, ui, toggles>>

\* cancelRecording()
cancelRecording ==
    /\ intervals' = intervals \ {intervalId}
    /\ recording_status' = "idle"
    /\ duration' = 0
    /\ UNCHANGED <<intervalId, timeouts, backend, events, ui>>

\* the callback of one running setInterval timer: duration++
IntervalTick ==
    /\ intervals # {}
    /\ duration < MaxDuration
    /\ duration' = duration + 1
    /\ UNCHANGED <<recording_status, intervalId, intervals, timeouts, backend,
                   events, ui, toggles>>

\* any caller of the store's exported operations
RecordNext ==
    \/ startRecording /\ UNCHANGED toggles
    \/ stopRecording /\ UNCHANGED toggles
    \/ stopRecording_resume
    \/ cancelRecording /\ UNCHANGED toggles
    \/ IntervalTick

RecordSpec == Init /\ [][RecordNext]_vars

\* C38: in every state reached by calls of startRecording, stopRecording and
\* cancelRecording, status = "idle" implies duration = 0 and no interval timer
\* running, and at most one interval timer is running.
C38_IdleMeansStopped ==
    /\ recording_status = "idle" => duration = 0 /\ intervals = {}
    /\ Cardinality(intervals) <= 1

\* the same under the two toggle handlers alone
IdleMeansStopped_toggled ==
    /\ recording_status = "idle" => duration = 0 /\ intervals = {} /\ timeouts = 0
    /\ Cardinality(intervals) <= 1 /\ timeouts <= 1

\* handleToggleRecording with its second test dropped: starts whenever the
\* store is not recording
App_handleToggleRecording_unguarded ==
    /\ toggles < MaxToggles
    /\ toggles' = toggles + 1
    /\ IF recording_status # "recording"
       THEN startRecording
       ELSE stopRecording

\* App.svelte handleToggleRecording (the keyboard shortcut), up to the await
\* of stopRecording; what follows the await inserts the transcription into
\* the editor and leaves the recording store alone
App_handleToggleRecording ==
    /\ toggles < MaxToggles
    /\ toggles' = toggles + 1
    /\ IF recording_status = "idle"
       THEN startRecording
       ELSE IF recording_status = "recording"
            THEN stopRecording
            ELSE UNCHANGED <<recording, backend, events, ui>>

\* RecordButton.svelte toggleRecording, the button's onclick; the button is
\* disabled while the store is processing
RecordButton_toggleRecording ==
    /\ recording_status # "processing"
    /\ toggles < MaxToggles
    /\ toggles' = toggles + 1
    /\ IF recording_status = "idle"
       THEN startRecording
       ELSE IF recording_status = "recording"
            THEN stopRecording
            ELSE UNCHANGED <<recording, backend, events, ui>>

ToggleNext ==
    \/ App_handleToggleRecording
    \/ RecordButton_toggleRecording
    \/ stopRecording_resume
    \/ IntervalTick

\* the setTimeout of stopRecording fires
ToggleSpec == Init /\ [][ToggleNext]_vars /\ WF_vars(stopRecording_resume)

\* C39: through the toggle handlers startRecording runs only when status is
\* idle and stopRecording only when status is recording; a toggle handled
\* while status is processing changes nothing in the store; and every stopped
\* recording returns to idle.
C39_TogglesGuarded ==
    /\ [][/\ intervalId' # intervalId => recording_status = "idle"
          /\ timeouts' > timeouts => recording_status = "recording"
          /\ (toggles' # toggles /\ recording_status = "processing")
                => UNCHANGED recording]_vars
    /\ (recording_status = "processing") ~> (recording_status = "idle")

\* one recording started and stopped, a third toggle handled while it was
\* processing, and the store back at idle
C39_Witness ==
    /\ recording_status = "idle"
    /\ intervalId = 1
    /\ toggles = 3
    /\ timeouts = 0

----------------------------------------------------------------------------
\* The vault store (vault.svelte.ts), the LockScreen and the App.svelte
\* template, on top of the commands and the auto-lock timer.  Each pending
\* invoke() of the front end is one command invocation p; flow[p] is the
\* asynchronous function waiting for it.

StatusFlows == {"mount", "listener", "unlock_status", "orphan_status"}
UnlockFlows == {"unlock", "orphan_unlock"}

\* the {#if} chain of the template with the lock test put before the
\* initialized test
Screen_locked_first ==
    IF ~vaultReady THEN "loading"
    ELSE IF vault_status.locked THEN "lock"
    ELSE IF ~vault_status.initialized THEN "setup"
    ELSE "main"

\* App.svelte template: {#if !vaultReady} ... {:else if !initialized} ...
\* {:else if locked} ... {:else} ...
Screen ==
    IF ~vaultReady THEN "loading"
    ELSE IF ~vault_status.initialized THEN "setup"
    ELSE IF vault_status.locked THEN "lock"
    ELSE "main"

\* the VaultStatus object the front end makes of a get_vault_status result
StatusOf(out) == [initialized |-> out.initialized, locked |-> out.locked,
                  timeout_remaining |-> out.timeout_remaining]

\* App.svelte onMount, up to the await of vaultStore.checkStatus()
App_onMount(p) ==
    /\ ~vaultReady
    /\ \A q \in Procs : flow[q] # "mount"
    /\ flow[p] = "none" /\ At(p, "idle")
    /\ flow' = [flow EXCEPT ![p] = "mount"]
    /\ UNCHANGED <<backend, events, vaultReady, vault_status, loading,
                   lastActivityTime, date_now, activity_log, recording, toggles>>

\* listen('vault-locked', ...): the callback takes one delivered event and
\* calls vaultStore.checkStatus()
vault_locked_listener(p) ==
    /\ events > 0
    /\ flow[p] = "none" /\ At(p, "idle")
    /\ events' = events - 1
    /\ flow' = [flow EXCEPT ![p] = "listener"]
    /\ UNCHANGED <<backend, vaultReady, vault_status, loading, lastActivityTime,
                   date_now, activity_log, recording, toggles>>

\* LockScreen handleUnlock, up to the await of vaultStore.unlock(password);
\* input and button are disabled while loading
LockScreen_handleUnlock(p) ==
    /\ Screen = "lock"
    /\ ~loading
    /\ flow[p] = "none" /\ At(p, "idle")
    /\ loading' = TRUE
    /\ flow' = [flow EXCEPT ![p] = "unlock"]
    /\ UNCHANGED <<backend, events, vaultReady, vault_status, lastActivityTime,
                   date_now, activity_log, recording, toggles>>

\* vaultStore.unlock after invoke('unlock_vault') has settled: on success
\* checkStatus() follows; on failure the error is rethrown and handleUnlock's
\* finally clears loading (of the LockScreen instance that started it)
vaultStore_unlock_settled(p) ==
    /\ flow[p] \in UnlockFlows
    /\ At(p, "done")
    /\ pc' = [pc EXCEPT ![p] = "idle"]
    /\ loc' = [loc EXCEPT ![p] = Idle]
    /\ IF loc[p].res = "ok"
       THEN /\ flow' = [flow EXCEPT ![p] = IF flow[p] = "unlock" THEN "unlock_status"
                                           ELSE "orphan_status"]
            /\ UNCHANGED loading
       ELSE /\ flow' = [flow EXCEPT ![p] = "none"]
            /\ loading' = IF flow[p] = "unlock" THEN FALSE ELSE loading
    /\ UNCHANGED <<files, docs, kek, last_activity, lock_timeout, mutex, now, sched,
                   nextSalt, nextRec, events, vaultReady, vault_status,
                   lastActivityTime, date_now, activity_log, recording, toggles>>

\* vaultStore.checkStatus after invoke('get_vault_status') has settled:
\* status = the result; then what the caller does after its await (onMount
\* sets vaultReady, handleUnlock clears loading).  When the template stops
\* showing the LockScreen the component is destroyed: a later LockScreen
\* starts with loading = false, and what handleUnlock calls of the destroyed
\* one still do to their own state is not seen.
vaultStore_checkStatus_settled(p) ==
    /\ flow[p] \in StatusFlows
    /\ At(p, "done")
    /\ pc' = [pc EXCEPT ![p] = "idle"]
    /\ loc' = [loc EXCEPT ![p] = Idle]
    /\ vault_status' = StatusOf(loc[p].out)
    /\ vaultReady' = (vaultReady \/ flow[p] = "mount")
    /\ IF Screen = "lock" /\ Screen' # "lock"
       THEN /\ loading' = FALSE
            /\ flow' = [q \in Procs |->
                          IF q = p THEN "none"
                          ELSE IF flow[q] = "unlock" THEN "orphan_unlock"
                          ELSE IF flow[q] = "unlock_status" THEN "orphan_status"
                          ELSE flow[q]]
       ELSE /\ loading' = IF flow[p] = "unlock_status" THEN FALSE ELSE loading
            /\ flow' = [flow EXCEPT ![p] = "none"]
    /\ UNCHANGED <<files, docs, kek, last_activity, lock_timeout, mutex, now, sched,
                   nextSalt, nextRec, events, lastActivityTime, date_now,
                   activity_log, recording, toggles>>

\* the front end and the back end together
UiNext ==
    \/ \E p \in Procs :
          \/ App_onMount(p)
          \/ vault_locked_listener(p)
          \/ LockScreen_handleUnlock(p)
          \/ flow[p] \in StatusFlows /\ get_vault_status_config(p)
          \/ get_vault_status_initialized(p)
          \/ get_vault_status_locked(p)
          \/ get_vault_status_timeout(p)
          \/ vaultStore_checkStatus_settled(p)
          \/ flow[p] \in UnlockFlows /\ unlock_vault_config(p)
          \/ unlock_vault_read_salt(p)
          \/ unlock_vault_verify(p)
          \/ unlock_vault_unlock(p)
          \/ vaultStore_unlock_settled(p)
          \/ flow[p] = "none" /\ Screen = "main" /\ vault_activity(p)
          \/ flow[p] = "none" /\ Respond(p)
    \/ timer_should_lock
    \/ timer_lock
    \/ timer_emit
    \/ AdvanceTime

UiSpec == Init /\ [][UiNext]_vars

\* C35: the template shows exactly one of four screens, fixed by vaultReady
\* and the status last fetched: loading while vaultReady is false, the
\* SetupWizard when initialized is false, the LockScreen when initialized and
\* locked, the main UI only when initialized and not locked; and status
\* changes only by taking the result of a get_vault_status call.
C35_OneScreenFromStatus ==
    /\ [](/\ Screen \in {"loading", "setup", "lock", "main"}
          /\ Screen = "loading" <=> ~vaultReady
          /\ Screen = "setup" <=> vaultReady /\ ~vault_status.initialized
          /\ Screen = "lock" <=> /\ vaultReady
                                 /\ vault_status.initialized
                                 /\ vault_status.locked
          /\ Screen = "main" <=> /\ vaultReady
                                 /\ vault_status.initialized
                                 /\ ~vault_status.locked)
    /\ [][vault_status' # vault_status =>
             \E p \in Procs : /\ At(p, "done")
                              /\ loc[p].cmd = "get_vault_status"
                              /\ vault_status' = StatusOf(loc[p].out)]_vars

\* the main UI after a status fetched from an unlocked vault
C35_Witness ==
    /\ Screen = "main"
    /\ vault_status.initialized /\ ~vault_status.locked
    /\ \A p \in Procs : flow[p] = "none"

\* Commands that were invoked run to their end and their results are taken,
\* delivered events reach the listener, onMount runs, the timer task and the
\* clock keep going; the user may stop typing and clicking at any time.
UiLiveSpec ==
    /\ UiSpec
    /\ \A p \in Procs :
          /\ WF_vars(App_onMount(p))
          /\ WF_vars(flow[p] \in StatusFlows /\ get_vault_status_config(p))
          /\ WF_vars(get_vault_status_initialized(p))
          /\ WF_vars(get_vault_status_locked(p))
          /\ WF_vars(get_vault_status_timeout(p))
          /\ WF_vars(vaultStore_checkStatus_settled(p))
          /\ WF_vars(flow[p] \in UnlockFlows /\ unlock_vault_config(p))
          /\ WF_vars(unlock_vault_read_salt(p))
          /\ WF_vars(unlock_vault_verify(p))
          /\ WF_vars(unlock_vault_unlock(p))
          /\ WF_vars(vaultStore_unlock_settled(p))
          /\ WF_vars(flow[p] = "none" /\ Respond(p))
    /\ SF_vars(\E p \in Procs : vault_locked_listener(p))
    /\ WF_vars(timer_should_lock)
    /\ WF_vars(timer_lock)
    /\ WF_vars(timer_emit)
    /\ WF_vars(AdvanceTime)

\* the status query started by the 'vault-locked' listener settles
ListenerSettles(p) == flow[p] = "listener" /\ At(p, "done") /\ pc'[p] = "idle"

\* C36: once a 'vault-locked' event has been delivered the vault store
\* queries get_vault_status again and its status.locked becomes true, so
\* that after every auto-lock the LockScreen comes to replace the main UI:
\* a Locked vault does not stay behind the main UI.
C36_LockScreenAfterAutoLock ==
    /\ [][\A p \in Procs : ListenerSettles(p) => vault_status'.locked]_vars
    /\ Locked ~> (Unlocked \/ Screen # "main")

====
